---- MODULE Spec2Model ----
(***************************************************************************)
(* Health Check Dashboard (src/src/App.tsx).                               *)
(*                                                                         *)
(* The React component App holds three pieces of state (healthData,        *)
(* loading, error), one asynchronous handler (checkHealth) that is bound   *)
(* to a button disabled while loading, and one pure formatter              *)
(* (formatUptime).  Every invocation of checkHealth is an async closure    *)
(* with two suspension points (await fetch, await response.json()); the    *)
(* code between two suspension points runs to completion on the single     *)
(* JavaScript thread and its state updates are committed in one render.    *)
(***************************************************************************)
EXTENDS Integers, Sequences, FiniteSets, TLC

VARIABLES
    VITE_BACKEND_URL,   \* import.meta.env.VITE_BACKEND_URL (fixed at build)
    healthData,         \* useState<HealthCheck | null>
    loading,            \* useState(false)
    error,              \* useState<string | null>
    calls,              \* the invocations of checkHealth, in call order
    view,               \* the committed render of App
    clicks,             \* history: user clicks on the button so far
    before,             \* history: (healthData, error) when the last call began
    lastOutcome         \* history: how the last completed call resolved

vars == <<VITE_BACKEND_URL, healthData, loading, error, calls, view,
          clicks, before, lastOutcome>>

(***************************************************************************)
(* Bounds                                                                  *)
(***************************************************************************)
MaxClicks == 3
MaxUptime == 3700

(***************************************************************************)
(* JavaScript values.  Numbers are exact rationals n/d (d > 0).            *)
(***************************************************************************)
Null == [t |-> "null"]
Undefined == [t |-> "undefined"]
NaN == [t |-> "NaN"]
Num(n) == [t |-> "number", n |-> n, d |-> 1]
Frac(n, d) == [t |-> "number", n |-> n, d |-> d]
Str(s) == [t |-> "string", s |-> s]
Obj(f) == [t |-> "object", f |-> f]
Error(m) == [t |-> "Error", message |-> m]

Truthy(v) ==
    CASE v.t = "null" -> FALSE
      [] v.t = "undefined" -> FALSE
      [] v.t = "NaN" -> FALSE
      [] v.t = "number" -> v.n # 0
      [] v.t = "string" -> v.s # ""
      [] OTHER -> TRUE

\* property read obj.k : an absent property reads as undefined
Get(obj, k) ==
    IF obj.t = "object" /\ k \in DOMAIN obj.f THEN obj.f[k] ELSE Undefined

ToNumber(v) ==
    CASE v.t = "number" -> v
      [] v.t = "null" -> Num(0)
      [] OTHER -> NaN

JsDiv(a, k) ==
    IF a.t = "NaN" THEN NaN ELSE Frac(a.n, a.d * k)

\* a % k keeps the sign of the dividend
JsMod(a, k) ==
    IF a.t = "NaN" THEN NaN
    ELSE IF a.n >= 0 THEN Frac(a.n % (k * a.d), a.d)
         ELSE Frac(0 - ((0 - a.n) % (k * a.d)), a.d)

MathFloor(a) ==
    IF a.t = "NaN" THEN NaN ELSE Num(a.n \div a.d)

Digit(d) ==
    CASE d = 0 -> "0" [] d = 1 -> "1" [] d = 2 -> "2" [] d = 3 -> "3"
      [] d = 4 -> "4" [] d = 5 -> "5" [] d = 6 -> "6" [] d = 7 -> "7"
      [] d = 8 -> "8" [] d = 9 -> "9"

RECURSIVE Dec(_)
Dec(n) == IF n < 10 THEN Digit(n) ELSE Dec(n \div 10) \o Digit(n % 10)

\* `${x}` for a number x that is NaN or an integer
NumToString(x) ==
    IF x.t = "NaN" THEN "NaN"
    ELSE IF x.n < 0 THEN "-" \o Dec(0 - x.n) ELSE Dec(x.n)

(***************************************************************************)
(* formatUptime                                                            *)
(***************************************************************************)
formatUptimeNoWrap(seconds) ==
    LET x == ToNumber(seconds)
        hours == MathFloor(JsDiv(x, 3600))
        minutes == MathFloor(JsDiv(x, 60))
        secs == MathFloor(JsMod(x, 60))
    IN  NumToString(hours) \o "h " \o NumToString(minutes) \o "m "
            \o NumToString(secs) \o "s"

formatUptime(seconds) ==
    LET x == ToNumber(seconds)
        hours == MathFloor(JsDiv(x, 3600))
        minutes == MathFloor(JsDiv(JsMod(x, 3600), 60))
        secs == MathFloor(JsMod(x, 60))
    IN  NumToString(hours) \o "h " \o NumToString(minutes) \o "m "
            \o NumToString(secs) \o "s"

(***************************************************************************)
(* Rendering                                                               *)
(***************************************************************************)
DefaultBackendUrl == "http://localhost:8000"

\* import.meta.env.VITE_BACKEND_URL || "http://localhost:8000"
BACKEND_URL ==
    IF Truthy(VITE_BACKEND_URL) THEN VITE_BACKEND_URL.s ELSE DefaultBackendUrl

\* text React puts in the DOM for a child expression {v}
RenderChild(v) ==
    CASE v.t = "string" -> v.s
      [] v.t = "number" -> NumToString(v)
      [] v.t = "NaN" -> "NaN"
      [] OTHER -> ""

IsIsoDate(s) ==
    /\ Len(s) = 24
    /\ SubSeq(s, 11, 11) = "T"
    /\ SubSeq(s, 24, 24) = "Z"

\* new Date(v).toLocaleTimeString(), shown for a 24-hour UTC viewer
LocaleTime(v) ==
    IF v.t = "string" /\ IsIsoDate(v.s) THEN SubSeq(v.s, 12, 19)
    ELSE "Invalid Date"

ButtonNeverDisabled(l) == FALSE

ButtonDisabled(l) == l

Render(hd, l, e) ==
    [ buttonDisabled |-> ButtonDisabled(l),
      buttonLabel |-> IF l THEN "Checking..." ELSE "Check Backend Health",
      errorPanel |->
          IF Truthy(e) THEN [shown |-> TRUE, text |-> RenderChild(e)]
          ELSE [shown |-> FALSE],
      reportPanel |->
          IF Truthy(hd)
          THEN [shown |-> TRUE,
                status |-> "Backend Status: " \o RenderChild(Get(hd, "status")),
                environment |-> RenderChild(Get(hd, "environment")),
                uptime |-> formatUptime(Get(hd, "uptime")),
                lastCheck |-> LocaleTime(Get(hd, "timestamp")),
                message |-> RenderChild(Get(hd, "message"))]
          ELSE [shown |-> FALSE],
      backendUrl |-> BACKEND_URL ]

(***************************************************************************)
(* Inputs: what the network can answer                                     *)
(***************************************************************************)
Report(uptime, environment) ==
    Obj([status |-> Str("ok"),
         timestamp |-> Str("2024-01-01T00:00:00.000Z"),
         uptime |-> uptime,
         message |-> Str("Service is healthy"),
         environment |-> Str(environment)])

ReportA == Report(Num(3665), "production")
ReportB == Report(Frac(119, 2), "development")
ReportPartial == Obj([status |-> Str("ok")])

Bodies == {ReportA, ReportB, ReportPartial, Null}

UptimeSamples == (0 .. MaxUptime) \cup {7325, 86399, 86400, 360000}
FormatBodies == {Report(Num(n), "production") : n \in UptimeSamples}

Statuses == {200, 403, 500}

TransportErrors == {Error("Failed to fetch"), Str("aborted")}
ParseErrors == {Error("Unexpected token < in JSON at position 0")}

\* Response.ok
ResponseOk(status) == status >= 200 /\ status <= 299

(***************************************************************************)
(* checkHealth                                                             *)
(***************************************************************************)
FetchRequest ==
    [method |-> "GET", url |-> BACKEND_URL \o "/api/health"]

HttpErrorMessageNoStatus(status) == "HTTP error! status: "

HttpErrorMessage(status) == "HTTP error! status: " \o Dec(status)

ErrorTextGeneric(err) == "An unknown error occurred"

\* err instanceof Error ? err.message : "An unknown error occurred"
ErrorText(err) ==
    IF err.t = "Error" THEN err.message ELSE "An unknown error occurred"

StartKeepsError == [loading |-> TRUE, error |-> error, healthData |-> healthData]

StartClearsReport == [loading |-> TRUE, error |-> Null, healthData |-> Null]

\* setLoading(true); setError(null)
StartUpdate == [loading |-> TRUE, error |-> Null, healthData |-> healthData]

CatchKeepsReport(err) ==
    [loading |-> FALSE, error |-> Str(ErrorText(err)), healthData |-> healthData]

\* catch: setError(...); setHealthData(null)   finally: setLoading(false)
CatchUpdate(err) ==
    [loading |-> FALSE, error |-> Str(ErrorText(err)), healthData |-> Null]

\* setHealthData(data)   finally: setLoading(false)
SuccessUpdate(data) ==
    [loading |-> FALSE, error |-> error, healthData |-> data]

Commit(u) ==
    /\ healthData' = u.healthData
    /\ loading' = u.loading
    /\ error' = u.error
    /\ view' = Render(u.healthData, u.loading, u.error)

Pending == {i \in DOMAIN calls : calls[i].pc # "done"}

\* the user clicks the button; a disabled button dispatches no onClick
Click ==
    /\ clicks < MaxClicks
    /\ clicks' = clicks + 1
    /\ IF view.buttonDisabled
       THEN UNCHANGED <<healthData, loading, error, calls, view, before,
                        lastOutcome>>
       ELSE /\ Commit(StartUpdate)
            /\ calls' = Append(calls, [pc |-> "fetch", request |-> FetchRequest,
                                       jsonCalled |-> FALSE])
            /\ before' = [healthData |-> healthData, error |-> error]
            /\ UNCHANGED lastOutcome
    /\ UNCHANGED VITE_BACKEND_URL

Finish(i) == calls' = [calls EXCEPT ![i].pc = "done"]

\* fetch resolves with a response of the given status
FetchResolve(i, status) ==
    /\ i \in DOMAIN calls
    /\ calls[i].pc = "fetch"
    /\ IF ResponseOk(status)
       THEN /\ calls' = [calls EXCEPT ![i].pc = "json", ![i].jsonCalled = TRUE]
            /\ UNCHANGED <<healthData, loading, error, view, lastOutcome>>
       ELSE /\ Commit(CatchUpdate(Error(HttpErrorMessage(status))))
            /\ Finish(i)
            /\ lastOutcome' = [kind |-> "status", status |-> status]
    /\ UNCHANGED <<VITE_BACKEND_URL, clicks, before>>

\* fetch rejects
FetchReject(i, err) ==
    /\ i \in DOMAIN calls
    /\ calls[i].pc = "fetch"
    /\ Commit(CatchUpdate(err))
    /\ Finish(i)
    /\ lastOutcome' = [kind |-> "transport", err |-> err]
    /\ UNCHANGED <<VITE_BACKEND_URL, clicks, before>>

\* response.json() resolves with the parsed body
JsonResolve(i, data) ==
    /\ i \in DOMAIN calls
    /\ calls[i].pc = "json"
    /\ Commit(SuccessUpdate(data))
    /\ Finish(i)
    /\ lastOutcome' = [kind |-> "body", data |-> data]
    /\ UNCHANGED <<VITE_BACKEND_URL, clicks, before>>

\* response.json() rejects
JsonReject(i, err) ==
    /\ i \in DOMAIN calls
    /\ calls[i].pc = "json"
    /\ Commit(CatchUpdate(err))
    /\ Finish(i)
    /\ lastOutcome' = [kind |-> "parse", err |-> err]
    /\ UNCHANGED <<VITE_BACKEND_URL, clicks, before>>

Init ==
    /\ VITE_BACKEND_URL \in {Undefined, Str(""), Str("https://backend.example.net")}
    /\ healthData = Null
    /\ loading = FALSE
    /\ error = Null
    /\ calls = <<>>
    /\ view = Render(Null, FALSE, Null)
    /\ clicks = 0
    /\ before = [healthData |-> Null, error |-> Null]
    /\ lastOutcome = [kind |-> "none"]

Next ==
    \/ Click
    \/ \E i \in 1 .. MaxClicks, status \in Statuses : FetchResolve(i, status)
    \/ \E i \in 1 .. MaxClicks, err \in TransportErrors : FetchReject(i, err)
    \/ \E i \in 1 .. MaxClicks, data \in Bodies : JsonResolve(i, data)
    \/ \E i \in 1 .. MaxClicks, err \in ParseErrors : JsonReject(i, err)

Spec == Init /\ [][Next]_vars

\* one call answered 200 with a report of every sampled uptime
NextFormat ==
    \/ clicks = 0 /\ Click
    \/ FetchResolve(1, 200)
    \/ \E data \in FormatBodies : JsonResolve(1, data)

SpecFormat == Init /\ [][NextFormat]_vars


(***************************************************************************)
(* Helpers of the properties                                               *)
(***************************************************************************)
Contains(s, sub) ==
    \E i \in 1 .. (Len(s) - Len(sub) + 1) : SubSeq(s, i, i + Len(sub) - 1) = sub

\* call i completes in this step
Completes(i) == calls[i].pc # "done" /\ calls'[i].pc = "done"

Settled == Len(calls) > 0 /\ Pending = {}

DigitChars == {"0", "1", "2", "3", "4", "5", "6", "7", "8", "9"}

DigitVal(c) ==
    CASE c = "0" -> 0 [] c = "1" -> 1 [] c = "2" -> 2 [] c = "3" -> 3
      [] c = "4" -> 4 [] c = "5" -> 5 [] c = "6" -> 6 [] c = "7" -> 7
      [] c = "8" -> 8 [] c = "9" -> 9

RECURSIVE ReadNat(_, _, _)
ReadNat(s, p, acc) ==
    IF p <= Len(s) /\ SubSeq(s, p, p) \in DigitChars
    THEN ReadNat(s, p + 1, acc * 10 + DigitVal(SubSeq(s, p, p)))
    ELSE [val |-> acc, pos |-> p]

At(s, p, lit) ==
    p + Len(lit) - 1 <= Len(s) /\ SubSeq(s, p, p + Len(lit) - 1) = lit

\* reads "<h>h <m>m <s>s" back into its three numbers
ParseUptime(s) ==
    LET a == ReadNat(s, 1, 0)
        b == ReadNat(s, a.pos + 2, 0)
        c == ReadNat(s, b.pos + 2, 0)
    IN  [ok |-> /\ a.pos > 1 /\ At(s, a.pos, "h ")
                /\ b.pos > a.pos + 2 /\ At(s, b.pos, "m ")
                /\ c.pos > b.pos + 2 /\ At(s, c.pos, "s")
                /\ c.pos = Len(s),
         h |-> a.val, m |-> b.val, s |-> c.val]

\* the state a completed call must leave, as a function of its outcome only
ExpectedAfter(o) ==
    CASE o.kind = "body" ->
            [healthData |-> o.data, error |-> Null, loading |-> FALSE]
      [] o.kind = "status" ->
            [healthData |-> Null,
             error |-> Str("HTTP error! status: " \o ToString(o.status)),
             loading |-> FALSE]
      [] OTHER ->
            [healthData |-> Null,
             error |-> Str(IF o.err.t = "Error" THEN o.err.message
                           ELSE "An unknown error occurred"),
             loading |-> FALSE]

(***************************************************************************)
(* Properties                                                              *)
(***************************************************************************)

\* C1: at most one health-check call is outstanding at any time, and a
\* click while loading is true issues no network call and changes no state.
C1_SingleOutstandingCall ==
    /\ [](Cardinality(Pending) <= 1)
    /\ [][(loading /\ clicks' = clicks + 1) =>
            UNCHANGED <<healthData, loading, error, calls, view>>]_vars

C1_Witness ==
    /\ loading
    /\ Cardinality(Pending) = 1
    /\ clicks > Len(calls)

\* C2: a response with a non-success status N ends the call in the failure
\* state: error contains N, healthData is null, loading is false, and the
\* body was never parsed.
C2_NonSuccessStatus ==
    [][\A i \in DOMAIN calls :
         (Completes(i) /\ lastOutcome'.kind = "status") =>
            /\ ~ResponseOk(lastOutcome'.status)
            /\ error'.t = "string"
            /\ Contains(error'.s, ToString(lastOutcome'.status))
            /\ healthData' = Null
            /\ loading' = FALSE
            /\ ~calls'[i].jsonCalled
            /\ ~view'.reportPanel.shown
            /\ view'.errorPanel.shown
            /\ Contains(view'.errorPanel.text, ToString(lastOutcome'.status))]_vars

C2_Witness ==
    /\ Settled
    /\ lastOutcome = [kind |-> "status", status |-> 403]
    /\ before.healthData # Null
    /\ healthData = Null
    /\ error = Str("HTTP error! status: 403")

\* C3: a fetch that throws an Error with message M ends the call with
\* error equal to exactly M, healthData null and loading false.
C3_TransportFailure ==
    [][\A i \in DOMAIN calls :
         (Completes(i) /\ lastOutcome'.kind = "transport"
                       /\ lastOutcome'.err.t = "Error") =>
            /\ error' = Str(lastOutcome'.err.message)
            /\ healthData' = Null
            /\ loading' = FALSE
            /\ view'.errorPanel = [shown |-> TRUE,
                                   text |-> lastOutcome'.err.message]]_vars

C3_Witness ==
    /\ Settled
    /\ lastOutcome = [kind |-> "transport", err |-> Error("Failed to fetch")]
    /\ before.healthData # Null
    /\ healthData = Null
    /\ error = Str("Failed to fetch")

\* C4: a success response whose body parses as a report P ends the call
\* with healthData = P, error null and loading false, whatever was held
\* before the trigger.
C4_Success ==
    [][\A i \in DOMAIN calls :
         (Completes(i) /\ lastOutcome'.kind = "body"
                       /\ lastOutcome'.data.t = "object") =>
            /\ healthData' = lastOutcome'.data
            /\ error' = Null
            /\ loading' = FALSE
            /\ ~view'.errorPanel.shown
            /\ view'.reportPanel.shown]_vars

C4_Witness ==
    /\ Settled
    /\ lastOutcome = [kind |-> "body", data |-> ReportA]
    /\ before.error # Null
    /\ healthData = ReportA
    /\ error = Null
    /\ view.reportPanel.uptime = "1h 1m 5s"

\* C5: every call that resolves leaves the dashboard with loading false
\* and either a report or an error message set.
C5_ResolvedCallSettles ==
    Settled => (loading = FALSE /\ (healthData # Null \/ error # Null))

\* C6: a trigger from a non-loading state sets loading, clears error, issues
\* exactly one GET to {base URL}/api/health and leaves the held report
\* alone; healthData changes only when a call completes.
C6_TriggerFrame ==
    /\ [][(~loading /\ clicks' = clicks + 1) =>
            /\ loading' = TRUE
            /\ error' = Null
            /\ healthData' = healthData
            /\ Len(calls') = Len(calls) + 1
            /\ SubSeq(calls', 1, Len(calls)) = calls
            /\ calls'[Len(calls')].pc = "fetch"
            /\ calls'[Len(calls')].request =
                 [method |-> "GET",
                  url |-> (IF VITE_BACKEND_URL.t = "string"
                              /\ VITE_BACKEND_URL.s # ""
                           THEN VITE_BACKEND_URL.s
                           ELSE "http://localhost:8000") \o "/api/health"]]_vars
    /\ [][healthData' # healthData =>
            \E i \in DOMAIN calls :
                /\ Completes(i)
                /\ healthData' = IF lastOutcome'.kind = "body"
                                 THEN lastOutcome'.data ELSE Null]_vars

C6_Witness ==
    /\ loading
    /\ Cardinality(Pending) = 1
    /\ error = Null
    /\ before.error # Null \/ before.healthData # Null
    /\ healthData # Null
    /\ healthData = before.healthData

\* C7: after the second of two sequential calls completes, (healthData,
\* error, loading) is a function of that call's outcome alone.
C7_NoLeakBetweenCalls ==
    (Len(calls) >= 2 /\ Pending = {}) =>
        [healthData |-> healthData, error |-> error, loading |-> loading]
            = ExpectedAfter(lastOutcome)

C7_Witness ==
    /\ Len(calls) >= 2
    /\ Pending = {}
    /\ before.healthData = ReportA
    /\ lastOutcome.kind = "transport"
    /\ healthData = Null

\* C8: for a non-negative integer n, formatUptime(n) is "{h}h {m}m {s}s"
\* with h = floor(n/3600), m = floor((n mod 3600)/60), s = n mod 60,
\* 0 <= m,s <= 59 and h*3600 + m*60 + s <= n < h*3600 + m*60 + s + 1.
C8_FormatUptime ==
    (view.reportPanel.shown /\ Get(healthData, "uptime").t = "number"
                            /\ Get(healthData, "uptime").d = 1) =>
        LET n == Get(healthData, "uptime").n
            text == view.reportPanel.uptime
            p == ParseUptime(text)
        IN  /\ p.ok
            /\ p.h = n \div 3600
            /\ p.m = (n % 3600) \div 60
            /\ p.s = n % 60
            /\ p.m >= 0 /\ p.m <= 59
            /\ p.s >= 0 /\ p.s <= 59
            /\ p.h * 3600 + p.m * 60 + p.s <= n
            /\ n < p.h * 3600 + p.m * 60 + p.s + 1
            /\ text = ToString(p.h) \o "h " \o ToString(p.m) \o "m "
                        \o ToString(p.s) \o "s"
            /\ (n = 3665 => text = "1h 1m 5s")

C8_Witness ==
    /\ view.reportPanel.shown
    /\ Get(healthData, "uptime") = Num(3665)
    /\ view.reportPanel.uptime = "1h 1m 5s"

\* C9: a body that fails to parse gives the failure state, and a parsed
\* body with absent fields is rendered with absent uptime as zero seconds
\* and absent strings as empty.
C9_MalformedBody ==
    /\ (Settled /\ lastOutcome.kind = "parse") =>
          (error # Null /\ healthData = Null /\ loading = FALSE)
    /\ view.reportPanel.shown =>
          /\ Get(healthData, "uptime") = Undefined =>
                view.reportPanel.uptime = "0h 0m 0s"
          /\ Get(healthData, "environment") = Undefined =>
                view.reportPanel.environment = ""
          /\ Get(healthData, "message") = Undefined =>
                view.reportPanel.message = ""
          /\ Get(healthData, "timestamp") = Undefined =>
                view.reportPanel.lastCheck = ""

\* C10: error and healthData are never both non-null, so the error panel
\* and the report panel are never shown together.
C10_ErrorXorReport ==
    /\ ~(error # Null /\ healthData # Null)
    /\ ~(view.errorPanel.shown /\ view.reportPanel.shown)

C10_Witness ==
    /\ Settled
    /\ before.healthData # Null
    /\ error # Null
    /\ view.errorPanel.shown
    /\ ~view.reportPanel.shown
====
